---------------------------- MODULE Spec2Model ----------------------------
(***************************************************************************)
(* The crane flatten command (flatten / flattenIndex / flattenChild /      *)
(* flattenImage with its two writers), the layout tree walker (FindImage / *)
(* walk) and the platform finder of crane.Read (find), as state machines   *)
(* over manifest trees.                                                    *)
(***************************************************************************)
EXTENDS Integers, Sequences, FiniteSets, TLC

(***************************************************************************)
(* Bounds of the model.                                                    *)
(***************************************************************************)
MaxLayers == 2
MaxChildren == 3
MaxNest == 2
MaxChain == 12

(***************************************************************************)
(* Program constants.                                                      *)
(***************************************************************************)
maxDepth == 10

(***************************************************************************)
(* Media types and their classification (pkg/v1/types).                    *)
(***************************************************************************)
OCIImageIndex == "application/vnd.oci.image.index.v1+json"
DockerManifestList == "application/vnd.docker.distribution.manifest.list.v2+json"
OCIManifestSchema1 == "application/vnd.oci.image.manifest.v1+json"
DockerManifestSchema2 == "application/vnd.docker.distribution.manifest.v2+json"
DockerLayer == "application/vnd.docker.image.rootfs.diff.tar.gzip"

IsIndex(mt) == mt \in {OCIImageIndex, DockerManifestList}

IsImage(mt) == mt \in {OCIManifestSchema1, DockerManifestSchema2}

(***************************************************************************)
(* Values.  A nil pointer or an absent value is the empty sequence, a      *)
(* present one a sequence of length one.  An annotation mapping is a       *)
(* function from keys to values; nil and the empty mapping are <<>>.       *)
(***************************************************************************)
NoAnnotations == <<>>

NoPlatform == <<>>

Platform(os, arch) == <<[os |-> os, arch |-> arch]>>

Nil == [kind |-> "nil"]

NoErr == ""

(***************************************************************************)
(* Content addressing.  The digest of a node is its manifest's content     *)
(* (everything the manifest serialises, and nothing else); its size is the *)
(* number of items the manifest lists.                                     *)
(***************************************************************************)
Digest(n) ==
    CASE n.kind = "image" ->
           [mediaType |-> n.mediaType, config |-> n.config,
            layers |-> n.layers, annotations |-> n.annotations]
      [] n.kind = "index" ->
           [mediaType |-> n.mediaType, annotations |-> n.annotations,
            manifests |-> [i \in 1..Len(n.manifests) |-> n.manifests[i].desc]]
      [] OTHER -> [mediaType |-> n.mediaType, files |-> n.files]

Size(n) ==
    CASE n.kind = "image" ->
           1 + Len(n.layers) + Len(n.config.history)
             + Cardinality(DOMAIN n.annotations)
      [] n.kind = "index" ->
           1 + Len(n.manifests) + Cardinality(DOMAIN n.annotations)
      [] OTHER -> Cardinality(n.files)

(***************************************************************************)
(* pkg/v1/empty, pkg/v1/mutate, pkg/v1/stream, pkg/v1/partial: the library *)
(* operations the flatten engine calls.                                    *)
(***************************************************************************)
emptyImage ==
    [kind |-> "image", mediaType |-> DockerManifestSchema2,
     config |-> [os |-> "", arch |-> "", diffIDs |-> <<>>, history |-> <<>>],
     layers |-> <<>>, annotations |-> NoAnnotations, fault |-> "none"]

emptyIndex ==
    [kind |-> "index", mediaType |-> OCIImageIndex,
     annotations |-> NoAnnotations, manifests |-> <<>>, fault |-> "none"]

\* mutate.ConfigFile: the base image with its config record replaced.
mutateConfigFile(base, cf) == [base EXCEPT !.config = cf]

\* mutate.Extract: the merged filesystem of the image's layers, in order.
mutateExtract(img) == UNION {img.layers[i].files : i \in 1..Len(img.layers)}

\* stream.NewLayer: a layer over the given content.
streamNewLayer(files) == [mediaType |-> DockerLayer, files |-> files]

\* mutate.Append: one more layer, its diff-ID and its history entry.
mutateAppend(base, add) ==
    [base EXCEPT !.layers = Append(@, add.layer),
                 !.config.diffIDs = Append(@, add.layer.files),
                 !.config.history = Append(@, add.history)]

\* mutate.Annotations: the node's annotations with the given ones merged in.
mutateAnnotations(node, anns) ==
    [node EXCEPT !.annotations =
        [k \in (DOMAIN @) \cup (DOMAIN anns) |->
            IF k \in DOMAIN anns THEN anns[k] ELSE @[k]]]

\* mutate.AppendManifests: the base index with the addenda appended in order.
mutateAppendManifests(base, adds) ==
    [base EXCEPT !.manifests = @ \o adds]

\* mutate.IndexMediaType: the index with its media type replaced.
mutateIndexMediaType(idx, mt) == [idx EXCEPT !.mediaType = mt]

\* partial.Manifests: the index's children, in manifest order.
partialManifests(idx) == idx.manifests

\* partial.Descriptor: the descriptor the parent manifest holds for a child.
partialDescriptor(m) == m.desc

\* json.Marshal of a history list.
jsonMarshal(history) == <<"json", history>>

(***************************************************************************)
(* The writers (part_000 lines 72-104).  The sink is the destination's     *)
(* state: the layers uploaded to the registry and the images committed to  *)
(* the local layout.  `fails' is the outcome of the collaborator's call.   *)
(***************************************************************************)
RemoteWriterWriteLayer(sink, layer, fails) ==
    IF fails
    THEN [err |-> "uploading layer", sink |-> sink]
    ELSE [err |-> NoErr, sink |-> [sink EXCEPT !.uploaded = Append(@, layer)]]

RemoteWriterWriteImage(sink, img, fails) == [err |-> NoErr, sink |-> sink]

\* LocalWriter.WriteImage leaving the image in the layout when it fails.
LocalWriterWriteImagePartial(sink, img, fails) ==
    [err |-> IF fails THEN "append image" ELSE NoErr,
     sink |-> [sink EXCEPT !.committed = Append(@, img)]]

LocalWriterWriteImage(sink, img, fails) ==
    IF fails
    THEN [err |-> "append image", sink |-> sink]
    ELSE [err |-> NoErr, sink |-> [sink EXCEPT !.committed = Append(@, img)]]

LocalWriterWriteLayer(sink, layer, fails) == [err |-> NoErr, sink |-> sink]

WriteLayer(w, sink, layer, fails) ==
    IF w = "remote"
    THEN RemoteWriterWriteLayer(sink, layer, fails)
    ELSE LocalWriterWriteLayer(sink, layer, fails)

WriteImage(w, sink, img, fails) ==
    IF w = "remote"
    THEN RemoteWriterWriteImage(sink, img, fails)
    ELSE LocalWriterWriteImage(sink, img, fails)

(***************************************************************************)
(* The flatten engine (part_000 lines 200-364).  Every operator takes the  *)
(* state st = [sink, calls] it runs in and returns [err, node, st]: the    *)
(* error ("" for nil), the node returned and the state it leaves.  calls   *)
(* is the log of the flattenImage / flattenIndex calls that have returned. *)
(***************************************************************************)
Return(fn, old, st0, err, node, sink, calls) ==
    [err |-> err, node |-> node,
     st |-> [sink |-> sink,
             calls |-> Append(calls,
                 [fn |-> fn, old |-> old, err |-> err, out |-> node,
                  committed |-> SubSeq(sink.committed,
                                       Len(st0.sink.committed) + 1,
                                       Len(sink.committed))])]]

\* ClearLayerInfo forgetting to reset the diff-IDs.
ClearLayerInfoKeepsDiffIDs(cf) == [cf EXCEPT !.history = <<>>]

\* lines 328-330: clear layer-specific config file information.
ClearLayerInfo(cf) == [cf EXCEPT !.diffIDs = <<>>, !.history = <<>>]

\* RetainImageAnnotations leaving the rebuilt image without annotations.
RetainImageAnnotationsDropped(img, m) == img

\* lines 354-357: retain any annotations from the original image.
RetainImageAnnotations(img, m) ==
    IF Cardinality(DOMAIN m.annotations) # 0
    THEN mutateAnnotations(img, m.annotations)
    ELSE img

flattenImage(old, w, use, st) ==
    LET Fail(e, sink) == Return("flattenImage", old, st, e, Nil, sink, st.calls)
    IN
    IF old.fault = "digest" THEN Fail("getting old digest", st.sink)
    ELSE IF old.fault = "manifest" THEN Fail("reading manifest", st.sink)
    ELSE IF old.fault = "config" THEN Fail("getting config", st.sink)
    ELSE
    LET digest == Digest(old)
        m == old
        cf0 == old.config
        oldHistory == jsonMarshal(cf0.history)
        cf == ClearLayerInfo(cf0)
        img0 == mutateConfigFile(emptyImage, cf)
        layer == streamNewLayer(mutateExtract(old))
        wl == WriteLayer(w, st.sink, layer, old.fault = "sink")
    IN
    IF wl.err # NoErr THEN Fail("uploading layer", wl.sink)
    ELSE
    LET img1 == mutateAppend(img0,
                    [layer |-> layer,
                     history |-> [createdBy |-> <<use, "flatten", digest>>,
                                  comment |-> oldHistory]])
        img == RetainImageAnnotations(img1, m)
        wi == WriteImage(w, wl.sink, img, old.fault = "sink")
    IN
    IF wi.err # NoErr THEN Fail("writing img", wi.sink)
    ELSE Return("flattenImage", old, st, NoErr, img, wi.sink, st.calls)

\* IsAttestation with "or" for "and".
IsAttestationEitherField(desc) ==
    /\ desc.platform # NoPlatform
    /\ \/ desc.platform[1].os = "unknown"
       \/ desc.platform[1].arch = "unknown"

\* lines 253-259: drop attestations.
IsAttestation(desc) ==
    /\ desc.platform # NoPlatform
    /\ desc.platform[1].os = "unknown"
    /\ desc.platform[1].arch = "unknown"

\* RecomputeDescriptor keeping the original child's digest.
RecomputeDescriptorStaleDigest(desc, flattened) ==
    [desc EXCEPT !.size = Size(flattened)]

\* lines 265-272: the kept descriptor with the flattened child's size and digest.
RecomputeDescriptor(desc, flattened) ==
    [desc EXCEPT !.size = Size(flattened), !.digest = Digest(flattened)]

\* lines 281-284: retain any annotations from the original index.
RetainIndexAnnotations(idx, m) ==
    IF Cardinality(DOMAIN m.annotations) # 0
    THEN mutateAnnotations(idx, m.annotations)
    ELSE idx

\* lines 286-291: the new index takes the original's media type.
RetainIndexMediaType(idx, old) == mutateIndexMediaType(idx, old.mediaType)

\* lines 303-304: a child that is neither an index nor an image.
flattenOther(old, st) == [err |-> NoErr, node |-> old, st |-> st]

RECURSIVE flattenIndex(_, _, _, _)
RECURSIVE flattenChild(_, _, _, _)
RECURSIVE flattenLoop(_, _, _, _, _, _)

\* lines 246-277: the loop over the children, from child i on.
flattenLoop(manifests, i, adds, w, use, st) ==
    IF i > Len(manifests) THEN [err |-> NoErr, adds |-> adds, st |-> st]
    ELSE
    LET m == manifests[i]
        desc == partialDescriptor(m)
    IN
    IF IsAttestation(desc)
    THEN flattenLoop(manifests, i + 1, adds, w, use, st)
    ELSE
    LET r == flattenChild(m, w, use, st) IN
    IF r.err # NoErr THEN [err |-> r.err, adds |-> adds, st |-> r.st]
    ELSE flattenLoop(manifests, i + 1,
             Append(adds, [desc |-> RecomputeDescriptor(desc, r.node),
                           child |-> r.node]),
             w, use, r.st)

flattenIndex(old, w, use, st) ==
    IF old.fault = "manifest"
    THEN Return("flattenIndex", old, st, "index manifest", Nil, st.sink, st.calls)
    ELSE IF old.fault = "children"
    THEN Return("flattenIndex", old, st, "manifests", Nil, st.sink, st.calls)
    ELSE
    LET m == old
        manifests == partialManifests(old)
        loop == flattenLoop(manifests, 1, <<>>, w, use, st)
    IN
    IF loop.err # NoErr
    THEN Return("flattenIndex", old, st, loop.err, Nil,
                loop.st.sink, loop.st.calls)
    ELSE
    LET idx0 == mutateAppendManifests(emptyIndex, loop.adds)
        idx1 == RetainIndexAnnotations(idx0, m)
        idx == RetainIndexMediaType(idx1, old)
    IN Return("flattenIndex", old, st, NoErr, idx, loop.st.sink, loop.st.calls)

flattenChild(m, w, use, st) ==
    IF m.child.kind = "index" THEN flattenIndex(m.child, w, use, st)
    ELSE IF m.child.kind = "image" THEN flattenImage(m.child, w, use, st)
    ELSE flattenOther(m.child, st)

\* lines 200-221: the root dispatch on the pulled descriptor.
flatten(ref, w, use, st) ==
    IF ref.pullFails THEN [err |-> "pulling", node |-> Nil, st |-> st]
    ELSE
    LET desc == ref.root.desc IN
    IF IsIndex(desc.mediaType) THEN flattenIndex(ref.root.child, w, use, st)
    ELSE IF IsImage(desc.mediaType) THEN flattenImage(ref.root.child, w, use, st)
    ELSE [err |-> "can't flatten", node |-> Nil, st |-> st]

\* lines 223-231: push the flattened tree.
push(flat, ref, sink) ==
    IF flat.kind \in {"index", "image"}
    THEN [err |-> NoErr,
          sink |-> [sink EXCEPT !.pushed = Append(@, [ref |-> ref, node |-> flat])]]
    ELSE [err |-> "can't push", sink |-> sink]

(***************************************************************************)
(* Source trees.                                                           *)
(***************************************************************************)
Annotated == [k \in {"org.opencontainers.image.title"} |-> "app"]

MkLayer(i) == [mediaType |-> DockerLayer, files |-> {i}]

MkImage(mt, n, ann, os, arch, fault) ==
    [kind |-> "image", mediaType |-> mt,
     config |-> [os |-> os, arch |-> arch,
                 diffIDs |-> [i \in 1..n |-> {i}],
                 history |-> [i \in 1..n |->
                     [createdBy |-> <<"RUN", i>>, comment |-> <<>>]]],
     layers |-> [i \in 1..n |-> MkLayer(i)],
     annotations |-> ann, fault |-> fault]

MkIndex(mt, ann, manifests, fault) ==
    [kind |-> "index", mediaType |-> mt, annotations |-> ann,
     manifests |-> manifests, fault |-> fault]

MkBlob == [kind |-> "layer", mediaType |-> DockerLayer, files |-> {7},
           fault |-> "none"]

\* The entry a parent manifest holds for a child: its descriptor and the child.
Entry(node, platform) ==
    [desc |-> [mediaType |-> node.mediaType, size |-> Size(node),
               digest |-> Digest(node), platform |-> platform,
               annotations |-> NoAnnotations],
     child |-> node]

LeafCodes ==
    {"imgA", "imgB", "att", "halfOS", "halfArch", "other", "bad"}

Leaf(code) ==
    CASE code = "imgA" ->
           Entry(MkImage(OCIManifestSchema1, MaxLayers, Annotated,
                         "linux", "amd64", "none"),
                 Platform("linux", "amd64"))
      [] code = "imgB" ->
           Entry(MkImage(DockerManifestSchema2, 0, NoAnnotations,
                         "linux", "arm64", "none"),
                 NoPlatform)
      [] code = "att" ->
           Entry(MkImage(OCIManifestSchema1, 1, NoAnnotations,
                         "unknown", "unknown", "none"),
                 Platform("unknown", "unknown"))
      [] code = "halfOS" ->
           Entry(MkImage(DockerManifestSchema2, 1, Annotated,
                         "unknown", "amd64", "none"),
                 Platform("unknown", "amd64"))
      [] code = "halfArch" ->
           Entry(MkImage(OCIManifestSchema1, 1, NoAnnotations,
                         "linux", "unknown", "none"),
                 Platform("linux", "unknown"))
      [] code = "other" -> Entry(MkBlob, NoPlatform)
      [] code = "bad" ->
           Entry(MkImage(OCIManifestSchema1, 1, NoAnnotations,
                         "linux", "s390x", "sink"),
                 Platform("linux", "s390x"))

IndexAttrs ==
    {[mediaType |-> OCIImageIndex, annotations |-> Annotated],
     [mediaType |-> DockerManifestList, annotations |-> NoAnnotations]}

OtherAttr(a) == CHOOSE b \in IndexAttrs : b # a

SeqsUpTo(S, n) == UNION {[1..k -> S] : k \in 0..n}

\* The index of n levels whose children follow seq, every "nest" child being
\* the same index one level down, and `bottom' below the last level.
RECURSIVE Tree(_, _, _, _)
Tree(seq, n, attr, bottom) ==
    IF n = 0 THEN bottom
    ELSE MkIndex(attr.mediaType, attr.annotations,
             [i \in 1..Len(seq) |->
                 CASE seq[i] = "nest" ->
                        Entry(Tree(seq, n - 1, OtherAttr(attr), bottom), NoPlatform)
                   [] OTHER -> Leaf(seq[i])],
             "none")

LeafIndex == MkIndex(OCIImageIndex, NoAnnotations, <<Leaf("imgA")>>, "none")

DefaultAttr == [mediaType |-> OCIImageIndex, annotations |-> Annotated]

\* The chain of n nested indices, `bottom' being the last of them.
Chain(n, bottom) == Tree(<<"nest">>, n - 1, DefaultAttr, bottom)


EmptyIndex == MkIndex(OCIImageIndex, NoAnnotations, <<>>, "none")

\* An index whose manifest cannot be parsed, and one whose blob cannot be read.
BadIndex == MkIndex(OCIImageIndex, NoAnnotations, <<>>, "manifest")

LostIndex == MkIndex(OCIImageIndex, NoAnnotations, <<>>, "missing")

(***************************************************************************)
(* The layout tree walker (read.go lines 38-83) and the platform finder of *)
(* crane.Read (part_001 lines 63-116).                                     *)
(***************************************************************************)
Matchers == {"linux/amd64", "always", "never"}

\* A match.Matcher applied to a descriptor.
Matches(matcher, desc) ==
    CASE matcher = "always" -> TRUE
      [] matcher = "never" -> FALSE
      [] OTHER -> /\ desc.platform # NoPlatform
                  /\ desc.platform[1] = [os |-> "linux", arch |-> "amd64"]

\* v1.Platform.Equals.
PlatformEquals(p, q) == p.os = q.os /\ p.arch = q.arch

\* DepthExceeded off by one.
DepthExceededStrict(depth) == depth > maxDepth

\* read.go line 41: the ceiling test at the entry of walk.
DepthExceeded(depth) == depth >= maxDepth

\* walkChild scanning past a nested index for a matching image.
walkChildSkipsIndex(m, matcher) ==
    IF IsImage(m.mediaType) /\ Matches(matcher, m) THEN "return"
    ELSE "skip"

\* read.go lines 51-65: what walk does with one child of the manifest.
walkChild(m, matcher) ==
    IF IsIndex(m.mediaType) THEN "descend"
    ELSE IF IsImage(m.mediaType) /\ Matches(matcher, m) THEN "return"
    ELSE "skip"

\* part_001 lines 70-84: what find does with one child of the manifest.
findChild(m, platform) ==
    IF IsIndex(m.mediaType) THEN "descend"
    ELSE IF IsImage(m.mediaType)
    THEN IF m.platform = NoPlatform THEN "panic"
         ELSE IF PlatformEquals(m.platform[1], platform) THEN "return"
         ELSE "skip"
    ELSE "skip"

(***************************************************************************)
(* The inputs of a run.                                                    *)
(***************************************************************************)
TreeCodes == LeafCodes \cup {"nest"}

\* The child sequences of the source trees.
TreeSeqs == SeqsUpTo(TreeCodes, MaxChildren)

HasNest(seq) == \E i \in 1..Len(seq) : seq[i] = "nest"

\* The levels and the bottoms worth telling apart for a child sequence.
Levels(seq) == IF HasNest(seq) THEN 1..MaxNest ELSE {1}

Bottoms(seq, bs) == IF HasNest(seq) THEN bs ELSE {"empty"}

FaultyIndex(f) == MkIndex(OCIImageIndex, Annotated, <<Leaf("imgA")>>, f)

Bottom(b) ==
    CASE b = "empty" -> EmptyIndex
      [] b = "leaf" -> LeafIndex
      [] b = "bad" -> BadIndex
      [] OTHER -> LostIndex

RootImage(mt, n, annotated, f) ==
    MkImage(mt, n, IF annotated THEN Annotated ELSE NoAnnotations,
            "linux", "amd64", f)

ImageFaults == {"none", "digest", "manifest", "config", "sink"}

OciInput(dst, t) == [src |-> "src", dst |-> dst, root |-> t]

Ref(byDigest, node) ==
    [repo |-> "registry.example/repo",
     tag |-> IF byDigest THEN <<>> ELSE <<"latest">>,
     digest |-> IF byDigest THEN <<Digest(node)>> ELSE <<>>]

RemoteInput(byDigest, retag, t, pullFails) ==
    [src |-> Ref(byDigest, t),
     dst |-> IF retag THEN <<Ref(FALSE, t)>> ELSE <<>>,
     root |-> Entry(t, NoPlatform), pullFails |-> pullFails]

WalkCodes == {"imgA", "imgB", "other", "nest", "lost"}

WalkSeqs == SeqsUpTo(WalkCodes, MaxChildren)

WalkLeaf(code) ==
    IF code = "lost"
    THEN Entry(MkImage(OCIManifestSchema1, 1, NoAnnotations,
                       "linux", "amd64", "missing"),
               Platform("linux", "amd64"))
    ELSE Leaf(code)

RECURSIVE WalkTree(_, _, _)
WalkTree(seq, n, bottom) ==
    IF n = 0 THEN bottom
    ELSE MkIndex(OCIImageIndex, NoAnnotations,
             [i \in 1..Len(seq) |->
                 IF seq[i] = "nest"
                 THEN Entry(WalkTree(seq, n - 1, bottom), NoPlatform)
                 ELSE WalkLeaf(seq[i])],
             "none")

FindImageInput(t, matcher) == [root |-> t, matcher |-> matcher]

ReadInput(t, platform, pathFails) ==
    [root |-> t, platform |-> platform, pathFails |-> pathFails]

ReadPlatforms == {NoPlatform, Platform("linux", "arm64")}

(***************************************************************************)
(* The state.                                                              *)
(***************************************************************************)
VARIABLES
    op,      \* the operation this run performs
    input,   \* its arguments
    pc,      \* where the operation stands
    frame,   \* walk / find: the index being scanned, the child, the depth
    sink,    \* the destination: layers uploaded, images committed, trees pushed
    calls,   \* flatten: the flattenImage / flattenIndex calls that returned
    result   \* what the operation returned: [err, node]

vars == <<op, input, pc, frame, sink, calls, result>>

NoFrame == [idx |-> Nil, i |-> 0, depth |-> 0]

NoSink == [uploaded |-> <<>>, committed |-> <<>>, pushed |-> <<>>]

NoResult == [err |-> NoErr, node |-> Nil]

Start(o, in) ==
    /\ op = o
    /\ input = in
    /\ pc = "start"
    /\ frame = NoFrame
    /\ sink = NoSink
    /\ calls = <<>>
    /\ result = NoResult

InitOci ==
    \/ \E seq \in TreeSeqs, attr \in IndexAttrs :
          \E n \in Levels(seq), b \in Bottoms(seq, {"empty", "leaf"}) :
             Start("flatten-oci",
                   OciInput("dst", Tree(seq, n, attr, Bottom(b))))
    \/ \E n \in 1..MaxChain :
          Start("flatten-oci", OciInput("dst", Chain(n, LeafIndex)))
    \/ \E f \in {"manifest", "children", "missing"} :
          Start("flatten-oci", OciInput("dst", FaultyIndex(f)))
    \/ \E d \in {"", "src"} : Start("flatten-oci", OciInput(d, LeafIndex))

InitRemote ==
    \/ \E seq \in TreeSeqs, attr \in IndexAttrs :
          \E n \in Levels(seq), b \in Bottoms(seq, {"empty", "leaf"}) :
             Start("flatten-remote",
                   RemoteInput(FALSE, FALSE, Tree(seq, n, attr, Bottom(b)),
                               FALSE))
    \/ \E n \in 1..MaxChain :
          Start("flatten-remote",
                RemoteInput(FALSE, FALSE, Chain(n, LeafIndex), FALSE))
    \/ \E f \in {"manifest", "children"} :
          Start("flatten-remote",
                RemoteInput(FALSE, FALSE, FaultyIndex(f), FALSE))
    \/ \E mt \in {OCIManifestSchema1, DockerManifestSchema2},
          n \in 0..MaxLayers, annotated \in BOOLEAN, f \in ImageFaults,
          byDigest \in BOOLEAN, retag \in BOOLEAN :
          Start("flatten-remote",
                RemoteInput(byDigest, retag, RootImage(mt, n, annotated, f),
                            FALSE))
    \/ \E pullFails \in BOOLEAN :
          Start("flatten-remote", RemoteInput(FALSE, FALSE, MkBlob, pullFails))

InitFindImage ==
    \/ \E seq \in WalkSeqs, matcher \in Matchers :
          \E n \in Levels(seq),
             b \in Bottoms(seq, {"empty", "leaf", "bad", "lost"}) :
             Start("FindImage",
                   FindImageInput(WalkTree(seq, n, Bottom(b)), matcher))
    \/ \E n \in 1..MaxChain, b \in {"empty", "leaf"}, matcher \in Matchers :
          Start("FindImage",
                FindImageInput(WalkTree(<<"nest">>, n - 1, Bottom(b)), matcher))
    \/ \E b \in {"bad", "lost"} :
          Start("FindImage", FindImageInput(Bottom(b), "always"))

InitRead ==
    \/ \E seq \in WalkSeqs, p \in ReadPlatforms :
          \E n \in Levels(seq),
             b \in Bottoms(seq, {"empty", "leaf", "bad", "lost"}) :
             Start("Read", ReadInput(WalkTree(seq, n, Bottom(b)), p, FALSE))
    \/ \E n \in 1..MaxChain, b \in {"empty", "leaf"}, p \in ReadPlatforms :
          Start("Read",
                ReadInput(WalkTree(<<"nest">>, n - 1, Bottom(b)), p, FALSE))
    \/ \E b \in {"bad", "lost"} :
          Start("Read", ReadInput(Bottom(b), NoPlatform, FALSE))
    \/ Start("Read", ReadInput(LeafIndex, NoPlatform, TRUE))

Init == InitOci \/ InitRemote \/ InitFindImage \/ InitRead

Done(err, node) ==
    /\ pc' = "done"
    /\ result' = [err |-> err, node |-> node]

\* part_000 lines 121-148: crane flatten --format=oci.
RunOci ==
    /\ op = "flatten-oci"
    /\ pc = "start"
    /\ UNCHANGED <<op, input, frame>>
    /\ IF input.dst = ""
       THEN Done("--dst is required", Nil) /\ UNCHANGED <<sink, calls>>
       ELSE IF input.src = input.dst
       THEN Done("destructive operation", Nil) /\ UNCHANGED <<sink, calls>>
       ELSE IF input.root.fault = "missing"
       THEN Done("reading", Nil) /\ UNCHANGED <<sink, calls>>
       ELSE LET r == flattenIndex(input.root, "local", "crane",
                                  [sink |-> sink, calls |-> calls])
            IN /\ sink' = r.st.sink
               /\ calls' = r.st.calls
               /\ Done(r.err, r.node)

\* part_000 lines 149-191: crane flatten to a registry.
RunRemote ==
    /\ op = "flatten-remote"
    /\ pc = "start"
    /\ UNCHANGED <<op, input, frame>>
    /\ LET newRef == IF input.dst = <<>> THEN input.src ELSE input.dst[1]
           r == flatten(input, "remote", "crane",
                        [sink |-> sink, calls |-> calls])
       IN IF r.err # NoErr
          THEN /\ sink' = r.st.sink
               /\ calls' = r.st.calls
               /\ Done(r.err, Nil)
          ELSE LET digest == Digest(r.node)
                   target == IF input.src.digest # <<>>
                             THEN [repo |-> newRef.repo, tag |-> <<>>,
                                   digest |-> <<digest>>]
                             ELSE newRef
                   p == push(r.node, target, r.st.sink)
               IN /\ sink' = p.sink
                  /\ calls' = r.st.calls
                  /\ Done(p.err, r.node)

\* read.go lines 70-77: FindImage opens the root index and calls walk at depth 0.
FindImage ==
    /\ op = "FindImage"
    /\ pc = "start"
    /\ UNCHANGED <<op, input, sink, calls>>
    /\ IF input.root.fault = "missing"
       THEN Done("reading image", Nil) /\ UNCHANGED frame
       ELSE /\ frame' = [idx |-> input.root, i |-> 0, depth |-> 0]
            /\ pc' = "walk"
            /\ UNCHANGED result

\* read.go lines 40-48: the entry of walk.
WalkEnter ==
    /\ op = "FindImage"
    /\ pc = "walk"
    /\ UNCHANGED <<op, input, sink, calls>>
    /\ IF DepthExceeded(frame.depth)
       THEN Done("max depth exceeded", Nil) /\ UNCHANGED frame
       ELSE IF frame.idx.fault = "manifest"
       THEN Done("reading manifest", Nil) /\ UNCHANGED frame
       ELSE /\ frame' = [frame EXCEPT !.i = 1]
            /\ pc' = "loop"
            /\ UNCHANGED result

\* read.go lines 50-67: one iteration of walk's loop, or its end.
WalkLoop ==
    /\ op = "FindImage"
    /\ pc = "loop"
    /\ UNCHANGED <<op, input, sink, calls>>
    /\ IF frame.i > Len(frame.idx.manifests)
       THEN Done(NoErr, Nil) /\ UNCHANGED frame
       ELSE LET e == frame.idx.manifests[frame.i]
                todo == walkChild(e.desc, input.matcher)
            IN CASE todo = "descend" ->
                      IF e.child.fault = "missing"
                      THEN Done("reading index", Nil) /\ UNCHANGED frame
                      ELSE /\ frame' = [idx |-> e.child, i |-> 0,
                                        depth |-> frame.depth + 1]
                           /\ pc' = "walk"
                           /\ UNCHANGED result
                 [] todo = "return" ->
                      /\ IF e.child.fault = "missing"
                         THEN Done("reading image", Nil)
                         ELSE Done(NoErr, e.child)
                      /\ UNCHANGED frame
                 [] OTHER ->
                      /\ frame' = [frame EXCEPT !.i = @ + 1]
                      /\ UNCHANGED <<pc, result>>

\* part_001 lines 90-110: Read defaults the platform, opens the layout, calls find.
Read ==
    /\ op = "Read"
    /\ pc = "start"
    /\ UNCHANGED <<op, input, sink, calls>>
    /\ IF input.pathFails
       THEN Done("parsing", Nil) /\ UNCHANGED frame
       ELSE IF input.root.fault = "missing"
       THEN Done("reading image", Nil) /\ UNCHANGED frame
       ELSE /\ frame' = [idx |-> input.root, i |-> 0, depth |-> 0]
            /\ pc' = "find"
            /\ UNCHANGED result

\* The platform find looks for: Read's default when the caller gave none.
ReadPlatform ==
    IF input.platform = NoPlatform
    THEN [os |-> "linux", arch |-> "amd64"]
    ELSE input.platform[1]

\* part_001 lines 63-67: the entry of find.
FindEnter ==
    /\ op = "Read"
    /\ pc = "find"
    /\ UNCHANGED <<op, input, sink, calls>>
    /\ IF frame.idx.fault = "manifest"
       THEN Done("reading manifest", Nil) /\ UNCHANGED frame
       ELSE /\ frame' = [frame EXCEPT !.i = 1]
            /\ pc' = "floop"
            /\ UNCHANGED result

\* part_001 lines 69-87: one iteration of find's loop, or its end.
FindLoop ==
    /\ op = "Read"
    /\ pc = "floop"
    /\ UNCHANGED <<op, input, sink, calls>>
    /\ IF frame.i > Len(frame.idx.manifests)
       THEN Done("cannot find image for platform", Nil) /\ UNCHANGED frame
       ELSE LET e == frame.idx.manifests[frame.i]
                todo == findChild(e.desc, ReadPlatform)
            IN CASE todo = "descend" ->
                      IF e.child.fault = "missing"
                      THEN Done("reading index", Nil) /\ UNCHANGED frame
                      ELSE /\ frame' = [idx |-> e.child, i |-> 0,
                                        depth |-> frame.depth + 1]
                           /\ pc' = "find"
                           /\ UNCHANGED result
                 [] todo = "return" ->
                      /\ IF e.child.fault = "missing"
                         THEN Done("reading image", Nil)
                         ELSE Done(NoErr, e.child)
                      /\ UNCHANGED frame
                 [] todo = "panic" ->
                      /\ Done("panic: nil pointer dereference", Nil)
                      /\ UNCHANGED frame
                 [] OTHER ->
                      /\ frame' = [frame EXCEPT !.i = @ + 1]
                      /\ UNCHANGED <<pc, result>>

Next ==
    \/ RunOci
    \/ RunRemote
    \/ FindImage
    \/ WalkEnter
    \/ WalkLoop
    \/ Read
    \/ FindEnter
    \/ FindLoop

Spec == Init /\ [][Next]_vars

(***************************************************************************)
(* Properties.                                                             *)
(***************************************************************************)
Finished == pc = "done"

Flattening == op \in {"flatten-oci", "flatten-remote"}

\* The calls of fn that returned without an error.
Returned(fn) ==
    {i \in 1..Len(calls) : calls[i].fn = fn /\ calls[i].err = NoErr}

Failed(fn) ==
    {i \in 1..Len(calls) : calls[i].fn = fn /\ calls[i].err # NoErr}

RootNode == IF op = "flatten-remote" THEN input.root.child ELSE input.root

\* C1: every image flattenImage returns has exactly one layer, one diff-ID and
\* one history entry, whatever the number of layers of its input.
C1_SingleLayer ==
    \A i \in Returned("flattenImage") :
        /\ Len(calls[i].out.layers) = 1
        /\ Len(calls[i].out.config.diffIDs) = 1
        /\ Len(calls[i].out.config.history) = 1

\* One run in which images of no layer, one layer and several layers were
\* flattened.
C1_Witness ==
    /\ Finished
    /\ \E i, j, k \in Returned("flattenImage") :
          /\ Len(calls[i].old.layers) = 0
          /\ Len(calls[j].old.layers) = 1
          /\ Len(calls[k].old.layers) > 1

\* What a descriptor says besides the digest and the size of its content.
Identity(desc) ==
    [mediaType |-> desc.mediaType, platform |-> desc.platform,
     annotations |-> desc.annotations]

Identities(manifests) ==
    [i \in 1..Len(manifests) |-> Identity(manifests[i].desc)]

UnknownPlatform(e) ==
    /\ Len(e.desc.platform) = 1
    /\ e.desc.platform[1].os = "unknown"
    /\ e.desc.platform[1].arch = "unknown"

KnownPlatform(e) == ~UnknownPlatform(e)

\* C2: the descriptors of the index flattenIndex returns are those of the
\* input's children whose platform is not unknown/unknown, each once, in the
\* input's order.
C2_OrderAndDrop ==
    \A i \in Returned("flattenIndex") :
        Identities(calls[i].out.manifests)
            = Identities(SelectSeq(calls[i].old.manifests, KnownPlatform))

\* An index of three children, an attestation among them, flattened into the
\* two others, one of which has a platform with a single unknown field.
C2_Witness ==
    /\ Finished
    /\ \E i \in Returned("flattenIndex") :
          /\ Len(calls[i].old.manifests) = 3
          /\ Len(calls[i].out.manifests) = 2
          /\ \E j \in 1..2 :
                /\ calls[i].out.manifests[j].desc.platform # NoPlatform
                /\ calls[i].out.manifests[j].desc.platform[1].os = "unknown"

RECURSIVE DescriptorsMatch(_)
DescriptorsMatch(node) ==
    node.kind = "index" =>
        \A j \in 1..Len(node.manifests) :
            /\ node.manifests[j].desc.digest = Digest(node.manifests[j].child)
            /\ node.manifests[j].desc.size = Size(node.manifests[j].child)
            /\ DescriptorsMatch(node.manifests[j].child)

\* C3: in every index flattenIndex returns, at every level of nesting, each
\* descriptor's digest and size are those of the flattened child it is
\* paired with.
C3_DigestConsistency ==
    \A i \in Returned("flattenIndex") : DescriptorsMatch(calls[i].out)

\* A nested index was flattened and one of its descriptors no longer carries
\* the digest of the original child.
C3_Witness ==
    /\ Finished
    /\ result.err = NoErr
    /\ \E i \in Returned("flattenIndex") :
          /\ calls[i].old # RootNode
          /\ \E j \in 1..Len(calls[i].out.manifests) :
                \E k \in 1..Len(calls[i].old.manifests) :
                   /\ Identity(calls[i].out.manifests[j].desc)
                        = Identity(calls[i].old.manifests[k].desc)
                   /\ calls[i].out.manifests[j].desc.digest
                        # calls[i].old.manifests[k].desc.digest

\* C4: a node with a non-empty annotation mapping is flattened into a node
\* with exactly that mapping, image or index, nested or not.
C4_AnnotationsPreserved ==
    \A i \in Returned("flattenImage") \cup Returned("flattenIndex") :
        Cardinality(DOMAIN calls[i].old.annotations) # 0
            => calls[i].out.annotations = calls[i].old.annotations

\* An annotated image inside an annotated nested index, both flattened.
C4_Witness ==
    /\ Finished
    /\ \E i \in Returned("flattenImage"), j \in Returned("flattenIndex") :
          /\ calls[i].old.annotations = Annotated
          /\ calls[j].old.annotations = Annotated
          /\ calls[j].old # RootNode
          /\ i < j

\* C5: every node flattenImage or flattenIndex returns has the media type of
\* the node it was given.
C5_MediaTypePreserved ==
    \A i \in Returned("flattenImage") \cup Returned("flattenIndex") :
        calls[i].out.mediaType = calls[i].old.mediaType

\* The first child of idx the walk stops at: the first that is index-shaped,
\* or image-shaped and matching.  0 when there is none.
Decisive(idx, matcher) ==
    LET S == {i \in 1..Len(idx.manifests) :
                \/ IsIndex(idx.manifests[i].desc.mediaType)
                \/ /\ IsImage(idx.manifests[i].desc.mediaType)
                   /\ Matches(matcher, idx.manifests[i].desc)}
    IN IF S = {} THEN 0 ELSE CHOOSE i \in S : \A j \in S : i <= j

\* The number of index levels on the single path the walk follows from idx,
\* idx included.
RECURSIVE PathLevels(_, _)
PathLevels(idx, matcher) ==
    IF idx.fault # "none" THEN 1
    ELSE LET d == Decisive(idx, matcher) IN
         IF d = 0 THEN 1
         ELSE LET e == idx.manifests[d] IN
              IF IsIndex(e.desc.mediaType) /\ e.child.fault # "missing"
              THEN 1 + PathLevels(e.child, matcher)
              ELSE 1

\* C6: FindImage ends with the max-depth error exactly when the path it
\* follows is more than maxDepth index levels deep (so for 11 levels, and not
\* for 9, where the matching leaf is returned), and walk never scans an
\* index below the ceiling.
C6_DepthCeiling ==
    op = "FindImage" =>
        /\ pc = "loop" => frame.depth < maxDepth
        /\ Finished =>
              (result.err = "max depth exceeded"
                  <=> PathLevels(input.root, input.matcher) > maxDepth)
        /\ (Finished /\ input.matcher = "always"
               /\ input.root = WalkTree(<<"nest">>, maxDepth - 2, LeafIndex))
              => result = [err |-> NoErr, node |-> Leaf("imgA").child]

\* The walk of a chain of maxDepth + 1 indices has ended with the max-depth
\* error.
C6_Witness ==
    /\ op = "FindImage"
    /\ Finished
    /\ result.err = "max depth exceeded"
    /\ input.root = WalkTree(<<"nest">>, maxDepth, LeafIndex)

\* The number of index levels of a tree.
RECURSIVE Height(_)
Height(node) ==
    IF node.kind # "index" THEN 0
    ELSE LET hs == {Height(node.manifests[j].child) :
                       j \in 1..Len(node.manifests)}
         IN 1 + (IF hs = {} THEN 0 ELSE CHOOSE h \in hs : \A g \in hs : g <= h)

\* C7: every traversal enforces the depth ceiling: walk and find never scan
\* an index maxDepth levels below the root, and flattening a tree of more
\* than maxDepth levels ends with the max-depth error.
C7_EveryTraversalBounded ==
    /\ pc \in {"loop", "floop"} => frame.depth < maxDepth
    /\ (Flattening /\ Finished /\ Height(RootNode) > maxDepth)
           => result.err = "max depth exceeded"

\* A child the flatten dispatch supports: an image or an index.
Supported(e) == e.child.kind \in {"image", "index"}

\* C8: a node that is neither an image nor an index makes the flatten fail:
\* at the root dispatch, and in flattenIndex for any child that reaches the
\* child dispatch; it never ends up in a returned index.
C8_UnsupportedNodeFails ==
    /\ (op = "flatten-remote" /\ Finished /\ ~input.pullFails
           /\ ~IsIndex(input.root.desc.mediaType)
           /\ ~IsImage(input.root.desc.mediaType))
          => result.err # NoErr
    /\ \A i \in Returned("flattenIndex") :
          /\ \A j \in 1..Len(calls[i].old.manifests) :
                KnownPlatform(calls[i].old.manifests[j])
                    => Supported(calls[i].old.manifests[j])
          /\ \A j \in 1..Len(calls[i].out.manifests) :
                Supported(calls[i].out.manifests[j])

RECURSIVE FlattenedImages(_)
FlattenedImages(n) ==
    IF n = 0 THEN <<>>
    ELSE IF calls[n].fn = "flattenImage" /\ calls[n].err = NoErr
    THEN Append(FlattenedImages(n - 1), calls[n].out)
    ELSE FlattenedImages(n - 1)

RECURSIVE SinglePathFirst(_, _)
SinglePathFirst(idx, matcher) ==
    IF idx.fault = "manifest" THEN [err |-> "reading manifest", node |-> Nil]
    ELSE LET d == Decisive(idx, matcher) IN
         IF d = 0 THEN [err |-> NoErr, node |-> Nil]
         ELSE LET e == idx.manifests[d] IN
              IF IsIndex(e.desc.mediaType)
              THEN IF e.child.fault = "missing"
                   THEN [err |-> "reading index", node |-> Nil]
                   ELSE SinglePathFirst(e.child, matcher)
              ELSE IF e.child.fault = "missing"
                   THEN [err |-> "reading image", node |-> Nil]
                   ELSE [err |-> NoErr, node |-> e.child]

\* C10: within the depth ceiling, the walk returns the single-path-first
\* result: that of the first child that is an index or a matching image, the
\* nested walk's result standing for the whole walk's, nothing when there is
\* no such child.
C10_SinglePathFirst ==
    (op = "FindImage" /\ Finished /\ input.root.fault # "missing"
        /\ PathLevels(input.root, input.matcher) <= maxDepth)
       => result = SinglePathFirst(input.root, input.matcher)

\* The walk has ended empty-handed after a nested index that held nothing,
\* a matching image standing after that index among its siblings.
C10_Witness ==
    /\ op = "FindImage"
    /\ Finished
    /\ result = [err |-> NoErr, node |-> Nil]
    /\ \E i, j \in 1..Len(input.root.manifests) :
          /\ i < j
          /\ IsIndex(input.root.manifests[i].desc.mediaType)
          /\ IsImage(input.root.manifests[j].desc.mediaType)
          /\ Matches(input.matcher, input.root.manifests[j].desc)
=============================================================================
